---- MODULE Spec2Model ----
(***************************************************************************)
(* Model of the attendance ingestion-and-delivery pipeline.                *)
(*                                                                         *)
(*   Spec       main.py : Capture Workers, the shared pending buffer,      *)
(*              push_to_server and the Supervisor's flush check.           *)
(*   SpecBatch  sync_all.py : push_batch, the Delivery Client with retry   *)
(*              and exponential backoff.                                   *)
(*   SpecSup    main.py : the same workers under the whole Supervisor      *)
(*              loop: reconnection, end-of-day scheduling, shutdown.       *)
(*   SpecResync main.py end_of_day_task and sync_all.py main: one full     *)
(*              resync run over the devices.                               *)
(*                                                                         *)
(* A record is <<device, n>>: the n-th event reported by that device.      *)
(***************************************************************************)
EXTENDS Integers, Sequences, FiniteSets, TLC

VARIABLES
    iterable,     \* hasattr(shared_buffer, "__iter__")            main.py:192
    clock,        \* time.time(), in seconds
    buffer,       \* shared_buffer, the Manager list               main.py:484
    reported,     \* per device: number of events it has reported so far
    posted,       \* per record: POSTs whose body held it          main.py:203
    delivered,    \* per record: POSTs holding it that returned 200
    nPosts,       \* POSTs made by push_to_server so far
    sent,         \* body of the POST of the current push_to_server call
    pc,           \* position of every process
    ret,          \* where push_to_server returns to
    data_copy,    \* push_to_server's local data_copy              main.py:193
    attempts,     \* POSTs made by the current push_to_server call
    now,          \* worker local `now`                            main.py:390
    last_flush,   \* worker local `last_flush`                     main.py:367
    attendance,   \* worker local: live_capture yielded an event   main.py:388
    flushed_at,   \* per worker: its `now` at its latest flush of either kind
    b_pc,         \* push_batch: position                          sync_all.py:91
    retries,      \* push_batch: argument `retries`
    attempt,      \* push_batch: local `attempt`                   sync_all.py:93
    backoff,      \* push_batch: local `backoff`                   sync_all.py:94
    b_posts,      \* push_batch: outcomes of the POSTs made, in order
    sleeps,       \* push_batch: the delays slept, in order        sync_all.py:109
    b_result,     \* push_batch: return value
    sup_now,      \* Supervisor local `now`, as seconds           main.py:496
    last_reconnect,    \* Supervisor local                        main.py:490
    last_eod_run_date, \* Supervisor local                        main.py:491
    eod_runs,     \* per date: executions of end_of_day_task begun that day
    wake,         \* end of the Supervisor's `time.sleep(60)`     main.py:514
    processes,    \* Supervisor local: the worker handles         main.py:487
    path,         \* resync entry point: "eod" (main.py:325) or "sync" (sync_all.py:169)
    r_pc,         \* resync: position
    devices,      \* the devices to process, in order            sync_all.py:175
    dev_ix,       \* index of `for device in devices` / `for d in DEVICES`
    start_dt,     \* sync_all.main local                          sync_all.py:182
    end_dt,       \* sync_all.main local                          sync_all.py:183
    chunk_size,   \* sync_all.main local                          sync_all.py:184
    raw_logs,     \* sync_all.main local                          sync_all.py:189
    logs,         \* sync_all.main local `logs`, filtered and sorted
    offset,       \* chunked(): start of the next chunk           sync_all.py:87
    batch,        \* sync_all.main local `batch`                  sync_all.py:219
    total_pushed, \* sync_all.main local                          sync_all.py:186
    attendance_data,   \* fetch_end_of_day_logs local             main.py:276
    eod_ok,       \* end_of_day_task local `ok`                   main.py:332
    eod_fail,     \* end_of_day_task local `fail`                 main.py:332
    eod_records,  \* the "Records:" count of the job's message for the device
    attempted,    \* resync: devices whose fetch has been attempted, in order
    deliveries    \* resync: deliveries made for the current device, in order

histVars   == <<posted, delivered, nPosts>>
pushVars   == <<ret, data_copy, sent, attempts>>
workerVars == <<now, last_flush, attendance, flushed_at>>
liveVars   == <<iterable, clock, buffer, reported, pc, histVars, pushVars,
                workerVars>>
batchVars  == <<b_pc, retries, attempt, backoff, b_posts, sleeps, b_result>>
supVars    == <<sup_now, last_reconnect, last_eod_run_date, eod_runs, wake,
                processes>>
resyncVars == <<path, r_pc, devices, dev_ix, start_dt, end_dt, chunk_size,
                raw_logs, logs, offset, batch, total_pushed, attendance_data,
                eod_ok, eod_fail, eod_records, attempted, deliveries>>
vars       == <<liveVars, batchVars, supVars, resyncVars>>

----------------------------------------------------------------------------
(* Bounds of the model *)
MaxEvents           == 2     \* events the devices report in all
MaxPosts            == 2     \* POSTs push_to_server makes in all
MaxTime             == 60    \* the clock stops here
MaxRetries          == 6     \* largest retry budget tried for push_batch
MaxJumps            == 1     \* reconnection intervals the Supervisor runs for
MaxStamp            == 2     \* device timestamps: half days 0 .. MaxStamp
MaxLogs             == 3     \* logs a device returns at most
MaxChunk            == 2     \* largest --chunk tried
MaxSyncRetries      == 1     \* largest --retries tried for a whole sync run

(* Program constants *)
NumDevices          == 2     \* len(config["devices"])
BUFFER_LIMIT        == 2     \* int(config["buffer_limit"])
periodic_flush_s    == 60
HTTP_OK             == 200
HTTP_ERROR          == 500   \* stands for every status other than 200
BACKOFF_START       == 2
BACKOFF_CAP         == 30
RECONNECT_S         == 15 * 60
EOD_SLEEP_S         == 60
DAY_S               == 24 * 3600
HALF_DAY_S          == 12 * 3600

\* the Supervisor enters its loop at 23:59:00 of day 0: the first iteration
\* is inside the end-of-day window, the first reconnection after midnight
StartTime  == 23 * 3600 + 59 * 60
MaxSupTime == StartTime + MaxJumps * RECONNECT_S

Date(t)     == t \div DAY_S                           \* date.today() at time t
InWindow(t) == (t % DAY_S) \div 60 = 23 * 60 + 59     \* hour == 23, minute == 59
Dates       == 0 .. Date(MaxSupTime)
NoDate      == 0 - 1                                  \* None

Devices  == 1 .. NumDevices
Workers  == Devices
Sup      == NumDevices + 1
Procs    == Workers \cup {Sup}
Statuses == {HTTP_OK, HTTP_ERROR}
Records  == Devices \X (1 .. MaxEvents)

DeviceHandles == [i \in 1 .. NumDevices |-> i]   \* one handle per device, in order

PushPcs  == {"push_check", "push_copy", "push_post", "push_clear"}

Range(s)    == {s[i] : i \in 1 .. Len(s)}
Min(a, b)   == IF a <= b THEN a ELSE b
Sum(f)      == LET RECURSIVE S(_)
                   S(D) == IF D = {} THEN 0
                           ELSE LET d == CHOOSE x \in D : TRUE
                                IN  f[d] + S(D \ {d})
               IN  S(DOMAIN f)

----------------------------------------------------------------------------
(* push_to_server, main.py:182-239, run by process p *)

\* the call site: `push_to_server(shared_buffer, ...)`
CallPush(p, back) ==
    /\ pc' = [pc EXCEPT ![p] = "push_check"]
    /\ ret' = [ret EXCEPT ![p] = back]
    /\ data_copy' = [data_copy EXCEPT ![p] = <<>>]
    /\ sent' = [sent EXCEPT ![p] = <<>>]
    /\ attempts' = [attempts EXCEPT ![p] = 0]

\* `return True` / `return False`: back at the call site, the locals of the
\* call are gone. No caller in main.py's capture loop or Supervisor loop
\* keeps the returned value (lines 406, 411, 519).
Return(p) ==
    /\ pc' = [pc EXCEPT ![p] = ret[p]]
    /\ ret' = [ret EXCEPT ![p] = "none"]
    /\ data_copy' = [data_copy EXCEPT ![p] = <<>>]
    /\ sent' = [sent EXCEPT ![p] = <<>>]

\* the request `client.post(ENDPOINT, json=payload)` with its outcome
Request(p, ok) ==
    /\ nPosts' = nPosts + 1
    /\ posted' = [r \in Records |->
                    IF r \in Range(data_copy[p]) THEN posted[r] + 1 ELSE posted[r]]
    /\ delivered' = [r \in Records |->
                    IF ok /\ r \in Range(data_copy[p])
                      THEN delivered[r] + 1 ELSE delivered[r]]

\* Variant of PushCheck: the flush goes on to the POST with an empty buffer.
PushCheck_NoEmptyReturn(p) ==
    /\ pc[p] = "push_check"
    /\ pc' = [pc EXCEPT ![p] = "push_copy"]
    /\ UNCHANGED <<iterable, clock, buffer, reported, histVars, pushVars,
                   workerVars, batchVars, supVars, resyncVars>>

\* `if not attendance_buffer: return True`
PushCheck(p) ==
    /\ pc[p] = "push_check"
    /\ IF Len(buffer) = 0
         THEN Return(p)
         ELSE /\ pc' = [pc EXCEPT ![p] = "push_copy"]
              /\ UNCHANGED <<ret, data_copy, sent>>
    /\ UNCHANGED <<iterable, clock, buffer, reported, histVars, attempts,
                   workerVars, batchVars, supVars, resyncVars>>

\* `data_copy = list(attendance_buffer)` when the buffer object exposes
\* __iter__; otherwise data_copy is the shared object itself (no copy).
PushCopy(p) ==
    /\ pc[p] = "push_copy"
    /\ data_copy' = [data_copy EXCEPT ![p] = IF iterable THEN buffer ELSE <<>>]
    /\ pc' = [pc EXCEPT ![p] = "push_post"]
    /\ UNCHANGED <<iterable, clock, buffer, reported, histVars, ret, sent,
                   attempts, workerVars, batchVars, supVars, resyncVars>>

\* Variant of PushPost: a failed POST is tried again instead of returning.
PushPost_Retrying(p) ==
    /\ pc[p] = "push_post"
    /\ iterable
    /\ nPosts < MaxPosts
    /\ \E st \in Statuses :
         /\ Request(p, st = HTTP_OK)
         /\ pc' = [pc EXCEPT ![p] = IF st = HTTP_OK THEN "push_clear"
                                                    ELSE "push_post"]
         /\ sent' = [sent EXCEPT ![p] = data_copy[p]]
         /\ attempts' = [attempts EXCEPT ![p] = @ + 1]
         /\ UNCHANGED <<ret, data_copy>>
    /\ UNCHANGED <<iterable, clock, buffer, reported, workerVars, batchVars, supVars, resyncVars>>

\* Variant of PushPost: the buffer is emptied on a failed POST as well.
PushPost_DiscardOnFailure(p) ==
    /\ pc[p] = "push_post"
    /\ iterable
    /\ nPosts < MaxPosts
    /\ \E st \in Statuses :
         /\ Request(p, st = HTTP_OK)
         /\ IF st = HTTP_OK
              THEN /\ pc' = [pc EXCEPT ![p] = "push_clear"]
                   /\ sent' = [sent EXCEPT ![p] = data_copy[p]]
                   /\ attempts' = [attempts EXCEPT ![p] = @ + 1]
                   /\ UNCHANGED <<ret, data_copy, buffer>>
              ELSE /\ Return(p)
                   /\ attempts' = [attempts EXCEPT ![p] = 0]
                   /\ buffer' = <<>>
    /\ UNCHANGED <<iterable, clock, reported, workerVars, batchVars, supVars, resyncVars>>

\* one POST that gets a response: 200 goes on to the success branch, any
\* other status returns False (lines 204, 222-230)
PushPost(p) ==
    /\ pc[p] = "push_post"
    /\ iterable
    /\ nPosts < MaxPosts
    /\ \E st \in Statuses :
         /\ Request(p, st = HTTP_OK)
         /\ IF st = HTTP_OK
              THEN /\ pc' = [pc EXCEPT ![p] = "push_clear"]
                   /\ sent' = [sent EXCEPT ![p] = data_copy[p]]
                   /\ attempts' = [attempts EXCEPT ![p] = @ + 1]
                   /\ UNCHANGED <<ret, data_copy>>
              ELSE /\ Return(p)
                   /\ attempts' = [attempts EXCEPT ![p] = 0]
    /\ UNCHANGED <<iterable, clock, buffer, reported, workerVars, batchVars, supVars, resyncVars>>

\* the POST raises (timeout, connection error): `except Exception`,
\* lines 231-239
PushPostRaises(p) ==
    /\ pc[p] = "push_post"
    /\ iterable
    /\ nPosts < MaxPosts
    /\ Request(p, FALSE)
    /\ Return(p)
    /\ attempts' = [attempts EXCEPT ![p] = 0]
    /\ UNCHANGED <<iterable, clock, buffer, reported, workerVars, batchVars, supVars, resyncVars>>

\* without the copy the payload holds the shared object itself, which the
\* JSON encoder of client.post rejects before any request is sent:
\* `except Exception`, lines 231-239
PushEncodeRaises(p) ==
    /\ pc[p] = "push_post"
    /\ ~iterable
    /\ Return(p)
    /\ UNCHANGED <<iterable, clock, buffer, reported, histVars, attempts,
                   workerVars, batchVars, supVars, resyncVars>>

\* Variant of PushClear: returns True without emptying the buffer.
PushClear_NoClear(p) ==
    /\ pc[p] = "push_clear"
    /\ Return(p)
    /\ attempts' = [attempts EXCEPT ![p] = 0]
    /\ UNCHANGED <<iterable, clock, buffer, reported, histVars,
                   workerVars, batchVars, supVars, resyncVars>>

\* `attendance_buffer.clear()` / `attendance_buffer[:] = []`; return True
PushClear(p) ==
    /\ pc[p] = "push_clear"
    /\ buffer' = <<>>
    /\ Return(p)
    /\ attempts' = [attempts EXCEPT ![p] = 0]
    /\ UNCHANGED <<iterable, clock, reported, histVars,
                   workerVars, batchVars, supVars, resyncVars>>

----------------------------------------------------------------------------
(* capture_real_time_logs, main.py:357-424, run by worker w *)

\* `last_flush = time.time()`, then `conn = zk.connect()`: a connection, or
\* None (return) or an exception (logged), which both end the worker
Connect(w) ==
    /\ pc[w] = "start"
    /\ last_flush' = [last_flush EXCEPT ![w] = clock]
    /\ flushed_at' = [flushed_at EXCEPT ![w] = clock]
    /\ \E ok \in BOOLEAN :
         pc' = [pc EXCEPT ![w] = IF ok THEN "capture" ELSE "exited"]
    /\ UNCHANGED <<iterable, clock, buffer, reported, histVars, pushVars,
                   now, attendance, batchVars, supVars, resyncVars>>

\* Variant of Event: the record is inserted at the head of the buffer.
Event_Prepend(w) ==
    /\ pc[w] = "capture"
    /\ Sum(reported) < MaxEvents
    /\ reported' = [reported EXCEPT ![w] = @ + 1]
    /\ now' = [now EXCEPT ![w] = clock]
    /\ attendance' = [attendance EXCEPT ![w] = TRUE]
    /\ buffer' = <<(<<w, reported[w] + 1>>)>> \o buffer
    /\ pc' = [pc EXCEPT ![w] = "size_check"]
    /\ UNCHANGED <<iterable, clock, histVars, pushVars, last_flush, flushed_at,
                   batchVars, supVars, resyncVars>>

\* live_capture yields an event: `now = time.time()`, then
\* `shared_buffer.append(log_entry)`
Event(w) ==
    /\ pc[w] = "capture"
    /\ Sum(reported) < MaxEvents
    /\ reported' = [reported EXCEPT ![w] = @ + 1]
    /\ now' = [now EXCEPT ![w] = clock]
    /\ attendance' = [attendance EXCEPT ![w] = TRUE]
    /\ buffer' = Append(buffer, <<w, reported[w] + 1>>)
    /\ pc' = [pc EXCEPT ![w] = "size_check"]
    /\ UNCHANGED <<iterable, clock, histVars, pushVars, last_flush, flushed_at,
                   batchVars, supVars, resyncVars>>

\* live_capture yields None: `now = time.time()`; `if attendance:` is skipped
Tick(w) ==
    /\ pc[w] = "capture"
    /\ now' = [now EXCEPT ![w] = clock]
    /\ attendance' = [attendance EXCEPT ![w] = FALSE]
    /\ pc' = [pc EXCEPT ![w] = "time_check"]
    /\ UNCHANGED <<iterable, clock, buffer, reported, histVars, pushVars,
                   last_flush, flushed_at, batchVars, supVars, resyncVars>>

\* Variant of StreamEnds: after a stream error the worker connects again.
StreamEnds_Reconnect(w) ==
    /\ pc[w] = "capture"
    /\ pc' = [pc EXCEPT ![w] = "start"]
    /\ UNCHANGED <<iterable, clock, buffer, reported, histVars, pushVars,
                   workerVars, batchVars, supVars, resyncVars>>

\* live_capture ends or raises: the `finally` block runs
StreamEnds(w) ==
    /\ pc[w] = "capture"
    /\ pc' = [pc EXCEPT ![w] = "disconnect"]
    /\ UNCHANGED <<iterable, clock, buffer, reported, histVars, pushVars,
                   workerVars, batchVars, supVars, resyncVars>>

\* Variant of SizeCheck: the comparison is strict.
SizeCheck_Strict(w) ==
    /\ pc[w] = "size_check"
    /\ IF Len(buffer) > BUFFER_LIMIT
         THEN /\ CallPush(w, "time_check")
              /\ flushed_at' = [flushed_at EXCEPT ![w] = now[w]]
         ELSE /\ pc' = [pc EXCEPT ![w] = "time_check"]
              /\ UNCHANGED <<pushVars, flushed_at>>
    /\ UNCHANGED <<iterable, clock, buffer, reported, histVars, now,
                   last_flush, attendance, batchVars, supVars, resyncVars>>

\* `if len(shared_buffer) >= BUFFER_LIMIT: push_to_server(...)`
SizeCheck(w) ==
    /\ pc[w] = "size_check"
    /\ IF Len(buffer) >= BUFFER_LIMIT
         THEN /\ CallPush(w, "time_check")
              /\ flushed_at' = [flushed_at EXCEPT ![w] = now[w]]
         ELSE /\ pc' = [pc EXCEPT ![w] = "time_check"]
              /\ UNCHANGED <<pushVars, flushed_at>>
    /\ UNCHANGED <<iterable, clock, buffer, reported, histVars, now,
                   last_flush, attendance, batchVars, supVars, resyncVars>>

\* `if now - last_flush >= periodic_flush_s and len(shared_buffer) > 0:`
TimeCheck(w) ==
    /\ pc[w] = "time_check"
    /\ IF now[w] - last_flush[w] >= periodic_flush_s /\ Len(buffer) > 0
         THEN CallPush(w, "set_last_flush")
         ELSE /\ pc' = [pc EXCEPT ![w] = "capture"]
              /\ UNCHANGED pushVars
    /\ UNCHANGED <<iterable, clock, buffer, reported, histVars, workerVars,
                   batchVars, supVars, resyncVars>>

\* `last_flush = now`
SetLastFlush(w) ==
    /\ pc[w] = "set_last_flush"
    /\ last_flush' = [last_flush EXCEPT ![w] = now[w]]
    /\ flushed_at' = [flushed_at EXCEPT ![w] = now[w]]
    /\ pc' = [pc EXCEPT ![w] = "capture"]
    /\ UNCHANGED <<iterable, clock, buffer, reported, histVars, pushVars,
                   now, attendance, batchVars, supVars, resyncVars>>

\* `finally: conn.disconnect()`, a failure is only logged
Disconnect(w) ==
    /\ pc[w] = "disconnect"
    /\ pc' = [pc EXCEPT ![w] = "exited"]
    /\ UNCHANGED <<iterable, clock, buffer, reported, histVars, pushVars,
                   workerVars, batchVars, supVars, resyncVars>>

----------------------------------------------------------------------------
(* Supervisor loop, main.py:495-521 *)

\* Variant of SupFlushCheckFrom: the comparison is strict.
SupFlushCheckFrom_Strict(here, back) ==
    /\ pc[Sup] = here
    /\ IF Len(buffer) > BUFFER_LIMIT
         THEN CallPush(Sup, back)
         ELSE /\ pc' = [pc EXCEPT ![Sup] = back]
              /\ UNCHANGED pushVars
    /\ UNCHANGED <<iterable, clock, buffer, reported, histVars, workerVars,
                   batchVars, supVars, resyncVars>>

\* `if len(shared_buffer) >= BUFFER_LIMIT: push_to_server(shared_buffer)`,
\* then `time.sleep(1)` and the next iteration; `here` is the position of
\* the check and `back` the position of the next iteration
SupFlushCheckFrom(here, back) ==
    /\ pc[Sup] = here
    /\ IF Len(buffer) >= BUFFER_LIMIT
         THEN CallPush(Sup, back)
         ELSE /\ pc' = [pc EXCEPT ![Sup] = back]
              /\ UNCHANGED pushVars
    /\ UNCHANGED <<iterable, clock, buffer, reported, histVars, workerVars,
                   batchVars, supVars, resyncVars>>

\* an iteration in which neither the reconnection nor the end-of-day check
\* fires: only the flush check acts
SupFlushCheck == SupFlushCheckFrom("sup_loop", "sup_loop")

\* time passes
AdvanceClock ==
    /\ clock + periodic_flush_s <= MaxTime
    /\ clock' = clock + periodic_flush_s
    /\ UNCHANGED <<iterable, buffer, reported, pc, histVars, pushVars,
                   workerVars, batchVars, supVars, resyncVars>>

----------------------------------------------------------------------------
(* Supervisor: the whole of main(), main.py:484-551.                       *)
(* Positions of the Supervisor: sup_top (line 496), sup_stop (501),        *)
(* sup_spawn (502), sup_eod (506), sup_eod_run (510), sup_eod_sleep (514), *)
(* sup_flush (517), sup_final_flush (542), sup_stopped (551).              *)

SupLoopPcs == {"sup_top", "sup_stop", "sup_spawn", "sup_eod", "sup_eod_run",
               "sup_eod_sleep", "sup_flush"}

\* stop_processes(processes): `p.terminate()` is SIGTERM, which ends a
\* running worker at whatever position it is in, without running its
\* `finally` block; a worker that has already exited is not affected.
\* `p.join(timeout=5)` then waits for the processes to be gone. The locals
\* of the stopped processes are gone, and so are those of a push_to_server
\* call of the Supervisor that an exception abandoned.
StopProcesses(next) ==
    LET gone == Range(processes) \cup {Sup} IN
    /\ pc' = [p \in Procs |->
                IF p = Sup THEN next
                ELSE IF p \in Range(processes) /\ pc[p] # "exited"
                       THEN "killed" ELSE pc[p]]
    /\ ret' = [p \in Procs |-> IF p \in gone THEN "none" ELSE ret[p]]
    /\ data_copy' = [p \in Procs |-> IF p \in gone THEN <<>> ELSE data_copy[p]]
    /\ sent' = [p \in Procs |-> IF p \in gone THEN <<>> ELSE sent[p]]
    /\ attempts' = [p \in Procs |-> IF p \in gone THEN 0 ELSE attempts[p]]
    /\ now' = [w \in Workers |-> IF w \in gone THEN 0 ELSE now[w]]
    /\ last_flush' = [w \in Workers |-> IF w \in gone THEN 0 ELSE last_flush[w]]
    /\ flushed_at' = [w \in Workers |-> IF w \in gone THEN 0 ELSE flushed_at[w]]
    /\ attendance' = [w \in Workers |->
                        IF w \in gone THEN FALSE ELSE attendance[w]]

\* `now = datetime.now()`; `if time.time() - last_reconnect >= 15 * 60:`
SupTop ==
    /\ pc[Sup] = "sup_top"
    /\ sup_now' = clock
    /\ pc' = [pc EXCEPT ![Sup] = IF clock - last_reconnect >= RECONNECT_S
                                   THEN "sup_stop" ELSE "sup_eod"]
    /\ UNCHANGED <<iterable, clock, buffer, reported, histVars, pushVars,
                   workerVars, batchVars, last_reconnect, last_eod_run_date,
                   eod_runs, wake, processes, resyncVars>>

\* `stop_processes(processes)` of the scheduled reconnection
SupStop ==
    /\ pc[Sup] = "sup_stop"
    /\ StopProcesses("sup_spawn")
    /\ UNCHANGED <<iterable, clock, buffer, reported, histVars, batchVars,
                   supVars, resyncVars>>

\* Variant of SupSpawn: the new handles are added to the old list.
SupSpawn_KeepHandles ==
    /\ pc[Sup] = "sup_spawn"
    /\ pc' = [p \in Procs |-> IF p = Sup THEN "sup_eod" ELSE "start"]
    /\ processes' = processes \o DeviceHandles
    /\ last_reconnect' = clock
    /\ UNCHANGED <<iterable, clock, buffer, reported, histVars, pushVars,
                   workerVars, batchVars, sup_now, last_eod_run_date,
                   eod_runs, wake, resyncVars>>

\* Variant of SupSpawn: the fresh workers are given a new, empty buffer.
SupSpawn_FreshBuffer ==
    /\ pc[Sup] = "sup_spawn"
    /\ pc' = [p \in Procs |-> IF p = Sup THEN "sup_eod" ELSE "start"]
    /\ processes' = DeviceHandles
    /\ last_reconnect' = clock
    /\ buffer' = <<>>
    /\ UNCHANGED <<iterable, clock, reported, histVars, pushVars,
                   workerVars, batchVars, sup_now, last_eod_run_date,
                   eod_runs, wake, resyncVars>>

\* `processes = reconnect_devices(shared_buffer)`: one new process per device,
\* in configuration order; `last_reconnect = time.time()`
SupSpawn ==
    /\ pc[Sup] = "sup_spawn"
    /\ pc' = [p \in Procs |-> IF p = Sup THEN "sup_eod" ELSE "start"]
    /\ processes' = DeviceHandles
    /\ last_reconnect' = clock
    /\ UNCHANGED <<iterable, clock, buffer, reported, histVars, pushVars,
                   workerVars, batchVars, sup_now, last_eod_run_date,
                   eod_runs, wake, resyncVars>>

\* reconnect_devices raises inside the loop (Process(...) or p.start() for
\* the device after the first n, lines 438-439): the n processes already
\* started run on, their handles were in the local list of reconnect_devices
\* and are lost; `processes` still holds the handles of the stopped set, so
\* the `except Exception` handler logs and `finally: stop_processes(processes)`
\* finds only processes that are gone
SupSpawnRaises ==
    /\ pc[Sup] = "sup_spawn"
    /\ \E n \in 0 .. NumDevices - 1 :
         pc' = [p \in Procs |-> IF p = Sup THEN "sup_final_flush"
                                ELSE IF p <= n THEN "start" ELSE pc[p]]
    /\ UNCHANGED <<iterable, clock, buffer, reported, histVars, pushVars,
                   workerVars, batchVars, supVars, resyncVars>>

\* `if now.hour == 23 and now.minute == 59:` on the sampled `now`, then
\* `if last_eod_run_date != date.today():` on the current date;
\* end_of_day_task() begins
SupEodCheck ==
    /\ pc[Sup] = "sup_eod"
    /\ IF InWindow(sup_now) /\ last_eod_run_date # Date(clock)
         THEN /\ pc' = [pc EXCEPT ![Sup] = "sup_eod_run"]
              /\ eod_runs' = [eod_runs EXCEPT ![Date(clock)] = @ + 1]
         ELSE /\ pc' = [pc EXCEPT ![Sup] = "sup_flush"]
              /\ UNCHANGED eod_runs
    /\ UNCHANGED <<iterable, clock, buffer, reported, histVars, pushVars,
                   workerVars, batchVars, sup_now, last_reconnect,
                   last_eod_run_date, wake, processes, resyncVars>>

\* Variant of SupEodDone: the date of the run is not recorded and the
\* Supervisor does not sleep.
SupEodDone_NoRecord ==
    /\ pc[Sup] = "sup_eod_run"
    /\ pc' = [pc EXCEPT ![Sup] = "sup_flush"]
    /\ UNCHANGED <<iterable, clock, buffer, reported, histVars, pushVars,
                   workerVars, batchVars, supVars, resyncVars>>

\* end_of_day_task() has returned or raised an Exception (logged):
\* `last_eod_run_date = date.today()`, `time.sleep(60)` begins
SupEodDone ==
    /\ pc[Sup] = "sup_eod_run"
    /\ last_eod_run_date' = Date(clock)
    /\ wake' = clock + EOD_SLEEP_S
    /\ pc' = [pc EXCEPT ![Sup] = "sup_eod_sleep"]
    /\ UNCHANGED <<iterable, clock, buffer, reported, histVars, pushVars,
                   workerVars, batchVars, sup_now, last_reconnect, eod_runs,
                   processes, resyncVars>>

\* `time.sleep(60)` is over
SupEodWake ==
    /\ pc[Sup] = "sup_eod_sleep"
    /\ clock >= wake
    /\ wake' = 0
    /\ pc' = [pc EXCEPT ![Sup] = "sup_flush"]
    /\ UNCHANGED <<iterable, clock, buffer, reported, histVars, pushVars,
                   workerVars, batchVars, sup_now, last_reconnect,
                   last_eod_run_date, eod_runs, processes, resyncVars>>

\* the flush check of the loop, then `time.sleep(1)` and the next iteration
SupFlush == SupFlushCheckFrom("sup_flush", "sup_top")

\* KeyboardInterrupt, or an Exception escaping the loop body, at any position
\* inside the `try` (lines 493-521): the handlers log, then
\* `finally: stop_processes(processes)`
SupInterrupt ==
    /\ \/ pc[Sup] \in SupLoopPcs
       \/ pc[Sup] \in PushPcs /\ ret[Sup] = "sup_top"
    /\ StopProcesses("sup_final_flush")
    /\ wake' = 0
    /\ UNCHANGED <<iterable, clock, buffer, reported, histVars, batchVars,
                   sup_now, last_reconnect, last_eod_run_date, eod_runs,
                   processes, resyncVars>>

\* `if len(shared_buffer) > 0: push_to_server(shared_buffer)`, then the last
\* lines of main (546-551)
SupFinalFlush ==
    /\ pc[Sup] = "sup_final_flush"
    /\ IF Len(buffer) > 0
         THEN CallPush(Sup, "sup_stopped")
         ELSE /\ pc' = [pc EXCEPT ![Sup] = "sup_stopped"]
              /\ UNCHANGED pushVars
    /\ UNCHANGED <<iterable, clock, buffer, reported, histVars, workerVars,
                   batchVars, supVars, resyncVars>>

\* time passes, one reconnection interval at a time
AdvanceClockSup ==
    /\ clock + RECONNECT_S <= MaxSupTime
    /\ clock' = clock + RECONNECT_S
    /\ UNCHANGED <<iterable, buffer, reported, pc, histVars, pushVars,
                   workerVars, batchVars, supVars, resyncVars>>

----------------------------------------------------------------------------
(* push_batch, sync_all.py:91-111 *)

Retries == (0 - 1) .. MaxRetries        \* values of --retries tried

\* `attempt = 0`, `backoff = 2`
BatchCall ==
    /\ b_pc = "call"
    /\ attempt' = 0
    /\ backoff' = BACKOFF_START
    /\ b_pc' = "loop"
    /\ UNCHANGED <<retries, b_posts, sleeps, b_result, liveVars, supVars, resyncVars>>

\* Variant of BatchLoop: the loop test is strict, one attempt fewer.
BatchLoop_Strict ==
    /\ b_pc = "loop"
    /\ IF attempt < retries
         THEN /\ b_pc' = "post"
              /\ UNCHANGED b_result
         ELSE /\ b_pc' = "done"
              /\ b_result' = "False"
    /\ UNCHANGED <<retries, attempt, backoff, b_posts, sleeps, liveVars, supVars, resyncVars>>

\* `while attempt <= retries:` ... `return False`
BatchLoop ==
    /\ b_pc = "loop"
    /\ IF attempt <= retries
         THEN /\ b_pc' = "post"
              /\ UNCHANGED b_result
         ELSE /\ b_pc' = "done"
              /\ b_result' = "False"
    /\ UNCHANGED <<retries, attempt, backoff, b_posts, sleeps, liveVars, supVars, resyncVars>>

\* Variant of BatchPost: every response counts as success, whatever its status.
BatchPost_AnyStatus ==
    /\ b_pc = "post"
    /\ \E st \in Statuses :
         /\ b_posts' = Append(b_posts, st)
         /\ b_pc' = "done"
         /\ b_result' = "True"
    /\ UNCHANGED <<retries, attempt, backoff, sleeps, liveVars, supVars, resyncVars>>

\* `resp = client.post(...)`; `if resp.status_code == 200: return True`
BatchPost ==
    /\ b_pc = "post"
    /\ \E st \in Statuses :
         /\ b_posts' = Append(b_posts, st)
         /\ IF st = HTTP_OK
              THEN /\ b_pc' = "done"
                   /\ b_result' = "True"
              ELSE /\ b_pc' = "failed"
                   /\ UNCHANGED b_result
    /\ UNCHANGED <<retries, attempt, backoff, sleeps, liveVars, supVars, resyncVars>>

\* client.post raises: `except Exception`; the attempt has no status (0)
BatchPostRaises ==
    /\ b_pc = "post"
    /\ b_posts' = Append(b_posts, 0)
    /\ b_pc' = "failed"
    /\ UNCHANGED <<retries, attempt, backoff, sleeps, b_result, liveVars, supVars, resyncVars>>

\* Variant of BatchRetry: the backoff doubles without the cap.
BatchRetry_NoCap ==
    /\ b_pc = "failed"
    /\ attempt' = attempt + 1
    /\ IF attempt + 1 <= retries
         THEN /\ sleeps' = Append(sleeps, backoff)
              /\ backoff' = backoff * 2
         ELSE UNCHANGED <<sleeps, backoff>>
    /\ b_pc' = "loop"
    /\ UNCHANGED <<retries, b_posts, b_result, liveVars, supVars, resyncVars>>

\* `attempt += 1`; `if attempt <= retries: time.sleep(backoff);
\* backoff = min(backoff * 2, 30)`
BatchRetry ==
    /\ b_pc = "failed"
    /\ attempt' = attempt + 1
    /\ IF attempt + 1 <= retries
         THEN /\ sleeps' = Append(sleeps, backoff)
              /\ backoff' = Min(backoff * 2, BACKOFF_CAP)
         ELSE UNCHANGED <<sleeps, backoff>>
    /\ b_pc' = "loop"
    /\ UNCHANGED <<retries, b_posts, b_result, liveVars, supVars, resyncVars>>

----------------------------------------------------------------------------
(* Full resync: end_of_day_task / fetch_end_of_day_logs, main.py:245-351,  *)
(* and sync_all.main / collect_device_logs, sync_all.py:114-227.           *)
(* A log record is <<device, k, ts>>: the k-th log the device returned,    *)
(* with timestamp ts in seconds. A delivery is <<body, ok, posts>>. An     *)
(* entry of `attempted` is <<device, outcome>>.                            *)

Stamps     == {k * HALF_DAY_S : k \in 0 .. MaxStamp}   \* timestamps on a device
DeviceLogs == UNION {[1 .. n -> Stamps] : n \in 0 .. MaxLogs}
DateArgs   == {NoDate} \cup {d * DAY_S : d \in Dates}  \* parse_date(--from/--to)
\* `devices` after the --device-id filter: all, one of them, or none
DeviceSelections == {DeviceHandles, <<>>} \cup {<<d>> : d \in Devices}

\* the values of --chunk tried: negative, zero, positive
ChunkArgs == (0 - 1) .. MaxChunk

\* Variant of EffectiveChunk: the argument is used as given.
EffectiveChunk_AsGiven(c) == c

\* `chunk_size = max(1, args.chunk)`
EffectiveChunk(c) == IF 1 >= c THEN 1 ELSE c

\* the outcome of the last attempted device becomes `what`
MarkLast(a, what) == [a EXCEPT ![Len(a)] = <<a[Len(a)][1], what>>]

\* the dicts built from the device's logs, in the device's order
MakeRecords(d, stamps) == [k \in 1 .. Len(stamps) |-> <<d, k, stamps[k]>>]

\* Variant of in_range: the end of the range is not applied.
in_range_NoEnd(ts, start, end) ==
    ~(start # NoDate /\ ts < start)

\* sync_all.in_range
in_range(ts, start, end) ==
    /\ ~(start # NoDate /\ ts < start)
    /\ ~(end # NoDate /\ ts > end)

\* `logs.sort(key=lambda r: r["timestamp"])`: stable, ascending
InsertByStamp(r, s) ==
    LET NotAfter(x) == x[3] <= r[3]
        After(x)    == x[3] > r[3]
    IN  SelectSeq(s, NotAfter) \o <<r>> \o SelectSeq(s, After)

RECURSIVE SortByStamp(_)
SortByStamp(s) ==
    IF s = <<>> THEN <<>>
    ELSE InsertByStamp(s[Len(s)], SortByStamp(SubSeq(s, 1, Len(s) - 1)))

\* Variant of ResyncLoop: the run ends at the first device that failed.
ResyncLoop_StopOnFailure ==
    /\ r_pc = "loop"
    /\ IF /\ dev_ix < Len(devices)
          /\ \A i \in 1 .. Len(attempted) : attempted[i][2] = "ok"
         THEN /\ dev_ix' = dev_ix + 1
              /\ r_pc' = IF path = "sync" THEN "collect" ELSE "fetch"
         ELSE /\ r_pc' = "done"
              /\ UNCHANGED dev_ix
    /\ deliveries' = <<>>
    /\ eod_records' = 0
    /\ UNCHANGED <<liveVars, batchVars, supVars, path, devices, start_dt,
                   end_dt, chunk_size, raw_logs, logs, offset, batch,
                   total_pushed, attendance_data, eod_ok, eod_fail, attempted>>

\* `for device in devices:` / `for d in DEVICES:`, and the end of the run
ResyncLoop ==
    /\ r_pc = "loop"
    /\ IF dev_ix < Len(devices)
         THEN /\ dev_ix' = dev_ix + 1
              /\ r_pc' = IF path = "sync" THEN "collect" ELSE "fetch"
         ELSE /\ r_pc' = "done"
              /\ UNCHANGED dev_ix
    /\ deliveries' = <<>>
    /\ eod_records' = 0
    /\ UNCHANGED <<liveVars, batchVars, supVars, path, devices, start_dt,
                   end_dt, chunk_size, raw_logs, logs, offset, batch,
                   total_pushed, attendance_data, eod_ok, eod_fail, attempted>>

\* sync_all.py:189-191: collect_device_logs returns the device's logs, or []
\* when the connection or the fetch raises (a failing disconnect is only
\* logged); `if not raw_logs: continue`
SyncCollect ==
    /\ r_pc = "collect"
    /\ \E fetched \in BOOLEAN, stamps \in DeviceLogs :
         /\ raw_logs' = IF fetched THEN MakeRecords(devices[dev_ix], stamps)
                                   ELSE <<>>
         /\ attempted' = Append(attempted,
                <<devices[dev_ix], IF fetched THEN "ok" ELSE "fetch_failed">>)
    /\ r_pc' = IF raw_logs' = <<>> THEN "loop" ELSE "filter"
    /\ UNCHANGED <<liveVars, batchVars, supVars, path, devices, dev_ix,
                   start_dt, end_dt, chunk_size, logs, offset, batch,
                   total_pushed, attendance_data, eod_ok, eod_fail,
                   eod_records, deliveries>>

\* sync_all.py:194-217: the range filter when --from or --to is given, else
\* `logs = raw_logs`, the same list; the sort, in place;
\* `if not logs: continue`
SyncFilter ==
    /\ r_pc = "filter"
    /\ LET InRange(r) == in_range(r[3], start_dt, end_dt)
           filtering  == start_dt # NoDate \/ end_dt # NoDate
           filtered   == IF filtering THEN SelectSeq(raw_logs, InRange)
                                      ELSE raw_logs
       IN  /\ logs' = SortByStamp(filtered)
           /\ raw_logs' = IF filtering THEN raw_logs ELSE logs'
    /\ r_pc' = IF logs' = <<>> THEN "loop" ELSE "chunk"
    /\ offset' = 0
    /\ UNCHANGED <<liveVars, batchVars, supVars, path, devices, dev_ix,
                   start_dt, end_dt, chunk_size, batch, total_pushed,
                   attendance_data, eod_ok, eod_fail, eod_records, attempted,
                   deliveries>>

\* `for i, batch in enumerate(chunked(logs, chunk_size))`: the next slice
\* `logs[i : i + size]`, handed to push_batch(endpoint, batch, retries)
SyncChunk ==
    /\ r_pc = "chunk"
    /\ IF offset < Len(logs)
         THEN /\ batch' = SubSeq(logs, offset + 1,
                                 Min(offset + chunk_size, Len(logs)))
              /\ offset' = offset + chunk_size
              /\ r_pc' = "push"
              /\ b_pc' = "call"
              /\ b_posts' = <<>>
              /\ sleeps' = <<>>
              /\ b_result' = "none"
         ELSE /\ r_pc' = "loop"
              /\ batch' = <<>>
              /\ UNCHANGED <<offset, b_pc, b_posts, sleeps, b_result>>
    /\ UNCHANGED <<liveVars, retries, attempt, backoff, supVars, path,
                   devices, dev_ix, start_dt, end_dt, chunk_size, raw_logs,
                   logs, total_pushed, attendance_data, eod_ok, eod_fail,
                   eod_records, attempted, deliveries>>

\* Variant of SyncAfterPush: after a failed chunk the next chunk is tried.
SyncAfterPush_Continue ==
    /\ r_pc = "push"
    /\ b_pc = "done"
    /\ b_pc' = "idle"
    /\ deliveries' = Append(deliveries,
                            <<batch, b_result = "True", Len(b_posts)>>)
    /\ r_pc' = "chunk"
    /\ IF b_result = "True"
         THEN /\ total_pushed' = total_pushed + Len(batch)
              /\ UNCHANGED attempted
         ELSE /\ attempted' = MarkLast(attempted, "push_failed")
              /\ UNCHANGED total_pushed
    /\ UNCHANGED <<liveVars, retries, attempt, backoff, b_posts, sleeps,
                   b_result, supVars, path, devices, dev_ix, start_dt, end_dt,
                   chunk_size, raw_logs, logs, offset, batch, attendance_data,
                   eod_ok, eod_fail, eod_records>>

\* push_batch has returned: `if not ok: break`, else
\* `total_pushed += len(batch)`
SyncAfterPush ==
    /\ r_pc = "push"
    /\ b_pc = "done"
    /\ b_pc' = "idle"
    /\ deliveries' = Append(deliveries,
                            <<batch, b_result = "True", Len(b_posts)>>)
    /\ IF b_result = "True"
         THEN /\ total_pushed' = total_pushed + Len(batch)
              /\ r_pc' = "chunk"
              /\ UNCHANGED attempted
         ELSE /\ r_pc' = "loop"
              /\ attempted' = MarkLast(attempted, "push_failed")
              /\ UNCHANGED total_pushed
    /\ UNCHANGED <<liveVars, retries, attempt, backoff, b_posts, sleeps,
                   b_result, supVars, path, devices, dev_ix, start_dt, end_dt,
                   chunk_size, raw_logs, logs, offset, batch, attendance_data,
                   eod_ok, eod_fail, eod_records>>

\* fetch_end_of_day_logs up to the push, main.py:252-288: no connection (None
\* or an exception, which the function logs) or no logs end the function;
\* otherwise attendance_data holds the logs dated today. end_of_day_task
\* counts the device as ok whenever the function returns (line 336).
EodFetch ==
    /\ r_pc = "fetch"
    /\ \E fetched \in BOOLEAN, stamps \in DeviceLogs :
         LET raw      == IF fetched THEN MakeRecords(devices[dev_ix], stamps)
                                    ELSE <<>>
             Today(r) == Date(r[3]) = Date(clock)
         IN  /\ attendance_data' = SelectSeq(raw, Today)
             /\ attempted' = Append(attempted,
                    <<devices[dev_ix], IF fetched THEN "ok" ELSE "fetch_failed">>)
    /\ IF attendance_data' = <<>>
         THEN /\ r_pc' = "loop"
              /\ eod_ok' = eod_ok + 1
         ELSE /\ r_pc' = "eod_push"
              /\ UNCHANGED eod_ok
    /\ UNCHANGED <<liveVars, batchVars, supVars, path, devices, dev_ix,
                   start_dt, end_dt, chunk_size, raw_logs, logs, offset, batch,
                   total_pushed, eod_fail, eod_records, deliveries>>

\* `ok = push_to_server(attendance_data, device_id)` on the private list,
\* main.py:290 and 182-239: one POST of a copy of the whole list; on a 200
\* push_to_server clears the list it was given (lines 213-217)
EodPush ==
    /\ r_pc = "eod_push"
    /\ \E delivered_ok \in BOOLEAN :
         /\ deliveries' = Append(deliveries, <<attendance_data, delivered_ok, 1>>)
         /\ attempted' = IF delivered_ok THEN attempted
                         ELSE MarkLast(attempted, "push_failed")
         /\ attendance_data' = IF delivered_ok THEN <<>> ELSE attendance_data
    /\ r_pc' = "eod_report"
    /\ UNCHANGED <<liveVars, batchVars, supVars, path, devices, dev_ix,
                   start_dt, end_dt, chunk_size, raw_logs, logs, offset, batch,
                   total_pushed, eod_ok, eod_fail, eod_records>>

\* main.py:291-306 and 314-320, 336: the message "End-of-Day Push" or "EoD
\* Push Failed" with `Records: {len(attendance_data)}`; then the disconnect
\* (a failure is logged) and the return, counted as ok
EodReport ==
    /\ r_pc = "eod_report"
    /\ eod_records' = Len(attendance_data)
    /\ attendance_data' = <<>>
    /\ eod_ok' = eod_ok + 1
    /\ r_pc' = "loop"
    /\ UNCHANGED <<liveVars, batchVars, supVars, path, devices, dev_ix,
                   start_dt, end_dt, chunk_size, raw_logs, logs, offset, batch,
                   total_pushed, eod_fail, attempted, deliveries>>

----------------------------------------------------------------------------
InitBatchIdle ==
    /\ b_pc = "idle"
    /\ retries = 0
    /\ attempt = 0
    /\ backoff = 0
    /\ b_posts = <<>>
    /\ sleeps = <<>>
    /\ b_result = "none"

InitResyncIdle ==
    /\ path = "none"
    /\ r_pc = "idle"
    /\ devices = <<>>
    /\ dev_ix = 0
    /\ start_dt = NoDate
    /\ end_dt = NoDate
    /\ chunk_size = 0
    /\ raw_logs = <<>>
    /\ logs = <<>>
    /\ offset = 0
    /\ batch = <<>>
    /\ total_pushed = 0
    /\ attendance_data = <<>>
    /\ eod_ok = 0
    /\ eod_fail = 0
    /\ eod_records = 0
    /\ attempted = <<>>
    /\ deliveries = <<>>

\* main.py:484-491 at time t: the shared buffer exists, one worker per device
\* was started, `last_reconnect = time.time()`, `last_eod_run_date = None`
InitLiveAt(t) ==
    /\ iterable \in BOOLEAN
    /\ clock = t
    /\ buffer = <<>>
    /\ reported = [d \in Devices |-> 0]
    /\ posted = [r \in Records |-> 0]
    /\ delivered = [r \in Records |-> 0]
    /\ nPosts = 0
    /\ ret = [p \in Procs |-> "none"]
    /\ data_copy = [p \in Procs |-> <<>>]
    /\ sent = [p \in Procs |-> <<>>]
    /\ attempts = [p \in Procs |-> 0]
    /\ now = [w \in Workers |-> 0]
    /\ last_flush = [w \in Workers |-> 0]
    /\ flushed_at = [w \in Workers |-> 0]
    /\ attendance = [w \in Workers |-> FALSE]
    /\ sup_now = t
    /\ last_reconnect = t
    /\ last_eod_run_date = NoDate
    /\ eod_runs = [d \in Dates |-> 0]
    /\ wake = 0
    /\ processes = DeviceHandles

InitLive ==
    /\ InitLiveAt(0)
    /\ pc = [p \in Procs |-> IF p = Sup THEN "sup_loop" ELSE "start"]

\* main.py: the Supervisor has created the shared buffer (line 484) and
\* started one worker per device (line 487)
Init ==
    /\ InitLive
    /\ InitBatchIdle
    /\ InitResyncIdle

Next ==
    \/ \E p \in Procs : PushCheck(p)
    \/ \E p \in Procs : PushCopy(p)
    \/ \E p \in Procs : PushPost(p)
    \/ \E p \in Procs : PushPostRaises(p)
    \/ \E p \in Procs : PushEncodeRaises(p)
    \/ \E p \in Procs : PushClear(p)
    \/ \E w \in Workers : Connect(w)
    \/ \E w \in Workers : Event(w)
    \/ \E w \in Workers : Tick(w)
    \/ \E w \in Workers : StreamEnds(w)
    \/ \E w \in Workers : SizeCheck(w)
    \/ \E w \in Workers : TimeCheck(w)
    \/ \E w \in Workers : SetLastFlush(w)
    \/ \E w \in Workers : Disconnect(w)
    \/ SupFlushCheck
    \/ AdvanceClock

Spec == Init /\ [][Next]_vars

\* sync_all.py: one call push_batch(endpoint, batch, retries)
InitBatch ==
    /\ InitLive
    /\ iterable = TRUE
    /\ b_pc = "call"
    /\ retries \in Retries
    /\ attempt = 0
    /\ backoff = 0
    /\ b_posts = <<>>
    /\ sleeps = <<>>
    /\ b_result = "none"
    /\ InitResyncIdle

NextBatch ==
    \/ BatchCall
    \/ BatchLoop
    \/ BatchPost
    \/ BatchPostRaises
    \/ BatchRetry

SpecBatch == InitBatch /\ [][NextBatch]_vars

\* main.py: the Supervisor enters its loop at StartTime
InitSup ==
    /\ InitLiveAt(StartTime)
    /\ InitBatchIdle
    /\ InitResyncIdle
    /\ pc = [p \in Procs |-> IF p = Sup THEN "sup_top" ELSE "start"]

NextSup ==
    \/ \E p \in Procs : PushCheck(p)
    \/ \E p \in Procs : PushCopy(p)
    \/ \E p \in Procs : PushPost(p)
    \/ \E p \in Procs : PushPostRaises(p)
    \/ \E p \in Procs : PushEncodeRaises(p)
    \/ \E p \in Procs : PushClear(p)
    \/ \E w \in Workers : Connect(w)
    \/ \E w \in Workers : Event(w)
    \/ \E w \in Workers : Tick(w)
    \/ \E w \in Workers : StreamEnds(w)
    \/ \E w \in Workers : SizeCheck(w)
    \/ \E w \in Workers : TimeCheck(w)
    \/ \E w \in Workers : SetLastFlush(w)
    \/ \E w \in Workers : Disconnect(w)
    \/ SupTop
    \/ SupStop
    \/ SupSpawn
    \/ SupSpawnRaises
    \/ SupEodCheck
    \/ SupEodDone
    \/ SupEodWake
    \/ SupFlush
    \/ SupInterrupt
    \/ SupFinalFlush
    \/ AdvanceClockSup

SpecSup == InitSup /\ [][NextSup]_vars

\* one run of sync_all.main with its arguments parsed, or one run of
\* end_of_day_task, which begins inside the 23:59 window
InitResync ==
    /\ InitLiveAt(StartTime)
    /\ iterable = TRUE
    /\ pc = [p \in Procs |-> "idle"]
    /\ path \in {"eod", "sync"}
    /\ r_pc = "loop"
    /\ dev_ix = 0
    /\ IF path = "sync"
         THEN /\ devices \in DeviceSelections
              /\ start_dt \in DateArgs
              /\ end_dt \in DateArgs
              /\ \E c \in ChunkArgs : chunk_size = EffectiveChunk(c)
              /\ retries \in (0 - 1) .. MaxSyncRetries
         ELSE /\ devices = DeviceHandles
              /\ start_dt = NoDate
              /\ end_dt = NoDate
              /\ chunk_size = 0
              /\ retries = 0
    /\ b_pc = "idle"
    /\ attempt = 0
    /\ backoff = 0
    /\ b_posts = <<>>
    /\ sleeps = <<>>
    /\ b_result = "none"
    /\ raw_logs = <<>>
    /\ logs = <<>>
    /\ offset = 0
    /\ batch = <<>>
    /\ total_pushed = 0
    /\ attendance_data = <<>>
    /\ eod_ok = 0
    /\ eod_fail = 0
    /\ eod_records = 0
    /\ attempted = <<>>
    /\ deliveries = <<>>

\* the steps of the resync run itself
ResyncStep ==
    \/ ResyncLoop
    \/ SyncCollect
    \/ SyncFilter
    \/ SyncChunk
    \/ BatchCall
    \/ BatchLoop
    \/ BatchPost
    \/ BatchPostRaises
    \/ BatchRetry
    \/ SyncAfterPush
    \/ EodFetch
    \/ EodPush
    \/ EodReport

\* sync_all.py never reads the clock; end_of_day_task reads the date per device
NextResync ==
    \/ ResyncStep
    \/ (path = "eod" /\ r_pc # "done" /\ AdvanceClockSup)

SpecResync == InitResync /\ [][NextResync]_vars

\* The live pipeline with an endpoint that answers 200 to every POST and
\* devices that accept every connection and keep their stream open, under
\* fair scheduling: every process that can take a step takes one, and time
\* passes. Whether a device reports an event is up to the device.
ConnectOk(w)  == Connect(w) /\ pc'[w] = "capture"
PushPostOk(p) == PushPost(p) /\ pc'[p] = "push_clear"

WorkerStep(w) ==
    \/ ConnectOk(w)
    \/ Event(w)
    \/ Tick(w)
    \/ SizeCheck(w)
    \/ TimeCheck(w)
    \/ SetLastFlush(w)

PushStep(p) ==
    \/ PushCheck(p)
    \/ PushCopy(p)
    \/ PushPostOk(p)
    \/ PushEncodeRaises(p)
    \/ PushClear(p)

NextFair ==
    \/ \E w \in Workers : WorkerStep(w)
    \/ \E p \in Procs : PushStep(p)
    \/ SupFlushCheck
    \/ AdvanceClock

Fairness ==
    /\ \A w \in Workers : WF_vars(WorkerStep(w) \/ PushStep(w))
    /\ WF_vars(SupFlushCheck \/ PushStep(Sup))
    /\ WF_vars(AdvanceClock)

SpecFair == Init /\ [][NextFair]_vars /\ Fairness

----------------------------------------------------------------------------
(* Properties *)

Appended == {r \in Records : r[2] <= reported[r[1]]}   \* records appended so far
Pending  == Range(buffer)                              \* records in the buffer
Removed  == Appended \ Pending                         \* records that left it

InPush(p)       == pc[p] \in PushPcs
\* the step in which process p returns False from push_to_server (lines 230, 239)
ReturnsFalse(p) == pc[p] = "push_post" /\ ~InPush(p)'
\* the step in which process p empties the buffer (line 215)
Clears(p)       == pc[p] = "push_clear" /\ ~InPush(p)'
\* POSTs made by the step
PostsInStep     == nPosts' - nPosts

DeviceOrdered(s) ==
    \A i, j \in 1 .. Len(s) :
        (i < j /\ s[i][1] = s[j][1]) => s[i][2] < s[j][2]

RECURSIVE Pow2(_)
Pow2(n) == IF n = 0 THEN 1 ELSE 2 * Pow2(n - 1)

Failures == Cardinality({i \in 1 .. Len(b_posts) : b_posts[i] # HTTP_OK})
NoSuccess == \A i \in 1 .. Len(b_posts) : b_posts[i] # HTTP_OK

\* C1: every record that has left the pending buffer was contained in the
\* body of a POST that returned 200, whatever the interleaving of appends
\* and flushes.
C1_RemovedOnlyWhenDelivered ==
    \A r \in Removed : delivered[r] >= 1

\* C2: the confirmed flush snapshots partition the appended records: no
\* record is in two of them, and a record that left the buffer is in
\* exactly one.
C2_SnapshotsPartition ==
    \A r \in Appended :
        /\ delivered[r] <= 1
        /\ r \in Removed => delivered[r] = 1

\* C3: against an endpoint that fails on every attempt, push_batch with
\* retries = R >= 0 makes exactly R + 1 POSTs and then returns False; it
\* never makes more than R + 1 POSTs.
C3_ExactlyRPlusOnePosts ==
    (retries >= 0 /\ NoSuccess) =>
        /\ Len(b_posts) <= retries + 1
        /\ b_pc = "done" => (Len(b_posts) = retries + 1 /\ b_result = "False")
        /\ b_result # "True"

C3_Witness ==
    /\ b_pc = "done"
    /\ retries = 3
    /\ b_posts = <<HTTP_ERROR, 0, HTTP_ERROR, 0>>
    /\ b_result = "False"

\* C4: push_batch returns True exactly when one of its first R + 1 attempts
\* received HTTP 200; the 200 is its last POST, and every other status and
\* every transport exception is a failed attempt.
C4_TrueIffA200 ==
    /\ \A i \in 1 .. Len(b_posts) :
          b_posts[i] = HTTP_OK =>
              (i = Len(b_posts) /\ i <= retries + 1
                 /\ b_pc = "done" /\ b_result = "True")
    /\ b_result = "True" =>
          (Len(b_posts) >= 1 /\ b_posts[Len(b_posts)] = HTTP_OK)
    /\ b_pc = "done" <=> b_result \in {"True", "False"}
    /\ b_result = "False" => NoSuccess

C4_Witness ==
    /\ retries = 3
    /\ b_posts = <<HTTP_ERROR, HTTP_ERROR, HTTP_OK>>
    /\ b_result = "True"
    /\ b_pc = "done"

C6_FailedBatchDiscarded ==
    /\ [][\A p \in Procs :
            ReturnsFalse(p) =>
                Range(data_copy[p]) \cap Range(buffer') = {}]_vars
    /\ [](\A r \in Records : posted[r] > delivered[r] => posted[r] = 1)

\* C6 amended: a failed live-buffer flush leaves the pending buffer as it
\* is: the records of the failed batch stay pending, and records leave the
\* buffer only in the clearing step that follows a POST answered with 200.
C6_FailedBatchStaysPending ==
    /\ [][\A p \in Procs : ReturnsFalse(p) => buffer' = buffer]_vars
    /\ [][Range(buffer) \subseteq Range(buffer')
            \/ \E p \in Procs : Clears(p) /\ attempts[p] = 1]_vars

C6_Witness ==
    /\ \E r \in Pending : posted[r] = 2 /\ delivered[r] = 0
    /\ \A p \in Procs : ~InPush(p)

\* C7: the delay before the k-th retry is min(2 * 2^(k-1), 30): the delays
\* start at 2, grow strictly until they reach 30 and stay there, and there
\* is one delay per failed attempt that is followed by another attempt,
\* none after the last one.
C7_BackoffSchedule ==
    /\ \A k \in 1 .. Len(sleeps) :
          sleeps[k] = Min(BACKOFF_START * Pow2(k - 1), BACKOFF_CAP)
    /\ \A k \in 1 .. Len(sleeps) - 1 :
          \/ sleeps[k] < sleeps[k + 1]
          \/ sleeps[k] = BACKOFF_CAP /\ sleeps[k + 1] = BACKOFF_CAP
    /\ Len(sleeps) = Min(attempt, IF retries >= 0 THEN retries ELSE 0)
    /\ b_pc \in {"loop", "post", "done"} => attempt = Failures

C7_Witness ==
    /\ b_pc = "done"
    /\ b_result = "False"
    /\ sleeps = <<2, 4, 8, 16, 30, 30>>

\* C8: a flush that copied N >= 1 records, got 200 and meets no record in
\* the buffer that was appended since its copy has made exactly one POST,
\* whose body is exactly the N records copied, and leaves the buffer empty.
C8_OnePostThenEmpty ==
    [][\A p \in Procs :
         (Clears(p) /\ Len(data_copy[p]) >= 1
            /\ Range(buffer) \subseteq Range(data_copy[p])) =>
             /\ attempts[p] = 1
             /\ sent[p] = data_copy[p]
             /\ \A r \in Range(data_copy[p]) : delivered[r] >= 1
             /\ buffer' = <<>>]_vars

C8_Witness ==
    /\ nPosts = 1
    /\ Cardinality(Appended) = 2
    /\ buffer = <<>>
    /\ \A r \in Appended : posted[r] = 1 /\ delivered[r] = 1
    /\ \A p \in Procs : ~InPush(p)

\* C9: the buffer only grows at its end or is emptied, the copy a flush
\* takes is the buffer as it is at that moment, the POST body is that copy,
\* and in the buffer and in every copy the records of one device are in
\* the order in which the device reported them.
C9_InsertionOrder ==
    /\ [][\/ buffer' = buffer
          \/ buffer' = <<>>
          \/ \E r \in Records : buffer' = Append(buffer, r)]_vars
    /\ [][\A p \in Procs :
            /\ (pc[p] = "push_copy" /\ pc'[p] = "push_post" /\ iterable)
                  => data_copy'[p] = buffer
            /\ (pc[p] = "push_post" /\ pc'[p] = "push_clear")
                  => sent'[p] = data_copy[p]]_vars
    /\ [](/\ DeviceOrdered(buffer)
          /\ \A p \in Procs : DeviceOrdered(data_copy[p]))

C9_Witness ==
    \E p \in Procs :
        /\ pc[p] = "push_clear"
        /\ sent[p] = <<(<<1, 1>>), (<<1, 2>>)>>

\* C10 as stated: whenever the buffer size is >= BUFFER_LIMIT when a worker
\* evaluates its triggers after an event or after a tick, the worker
\* starts a flush.
C10_SizeTriggerAtEventsAndTicks ==
    [][\A w \in Workers :
         (/\ \/ pc[w] = "size_check"
             \/ pc[w] = "time_check" /\ ~attendance[w]
          /\ pc'[w] # pc[w]
          /\ Len(buffer) >= BUFFER_LIMIT) => pc'[w] = "push_check"]_vars

\* C10 amended: the size trigger is evaluated only after a device event,
\* right after the append, and then starts a flush exactly when the buffer
\* size is >= BUFFER_LIMIT, whatever the time trigger says; after that and
\* after every tick only the time trigger is evaluated, which starts a
\* flush exactly when the flush interval has elapsed and the buffer is not
\* empty.
C10_SizeTriggerAtEventsOnly ==
    [][\A w \in Workers :
         /\ (pc[w] = "capture" /\ pc'[w] = "size_check") => attendance'[w]
         /\ (pc[w] = "capture" /\ pc'[w] = "time_check") => ~attendance'[w]
         /\ (pc[w] = "size_check" /\ pc'[w] # "size_check") =>
               /\ attendance[w]
               /\ pc'[w] = "push_check" <=> Len(buffer) >= BUFFER_LIMIT
               /\ pc'[w] = "push_check" => ret'[w] = "time_check"
         /\ (pc[w] = "time_check" /\ pc'[w] # "time_check") =>
               (pc'[w] = "push_check" <=>
                   (now[w] - last_flush[w] >= periodic_flush_s
                      /\ Len(buffer) > 0))]_vars

C10_Witness ==
    \E w \in Workers :
        /\ pc[w] = "push_check"
        /\ ret[w] = "time_check"
        /\ attendance[w]
        /\ Len(buffer) >= BUFFER_LIMIT
        /\ now[w] - last_flush[w] < periodic_flush_s

----------------------------------------------------------------------------
(* Worker life cycle and Supervisor, SpecSup *)

CapturePcs == {"capture", "size_check", "time_check", "set_last_flush"}
                  \cup PushPcs                       \* connected, capturing
EndedPcs   == {"exited", "killed"}                   \* the process is gone
FinalPcs   == {"sup_final_flush", "sup_stopped"}     \* `finally` of main
\* the Supervisor is past `stop_processes` of its `finally` block
InShutdown == pc[Sup] \in FinalPcs \/ (InPush(Sup) /\ ret[Sup] = "sup_stopped")
\* the step is the Supervisor's `reconnect_devices`
\* a step of reconnect_devices, completed or not
Spawns     == pc[Sup] = "sup_spawn" /\ pc'[Sup] # "sup_spawn"

\* C11: a worker goes start (disconnected, connecting) -> capturing ->
\* disconnect -> exited and never connects a second time; only the
\* Supervisor's reconnect_devices puts a new process at start. A failed
\* connect ends the worker in that step, with the buffer untouched; after the
\* stream ended the worker disconnects and exits.
C11_WorkerStateMachine ==
    [][\A w \in Workers :
         /\ (pc'[w] = "start" /\ pc[w] # "start") => Spawns
         /\ pc[w] = "start" => pc'[w] \in {"start", "capture"} \cup EndedPcs
         /\ (pc[w] = "start" /\ pc'[w] = "exited")
               => (buffer' = buffer /\ reported' = reported)
         /\ pc[w] \in CapturePcs
               => pc'[w] \in CapturePcs \cup {"disconnect", "killed"}
         /\ pc[w] = "disconnect" => pc'[w] \in {"disconnect"} \cup EndedPcs
         /\ pc[w] \in EndedPcs => pc'[w] \in {pc[w], "start"}]_vars

\* a worker of the first set has captured an event and has exited by itself
C11_Witness ==
    \E w \in Workers :
        pc[w] = "exited" /\ reported[w] >= 1 /\ last_reconnect = StartTime

\* C12: a worker that leaves the capturing positions, for whatever reason,
\* goes to its disconnect step.
C12_DisconnectBeforeEnd ==
    [][\A w \in Workers :
         (pc[w] \in CapturePcs /\ pc'[w] \notin CapturePcs)
             => pc'[w] = "disconnect"]_vars

\* C13: a worker is stopped only between two steps of its loop: never
\* between the append and the end of the flush checks, and never inside
\* push_to_server.
C13_StopCompletesStep ==
    [][\A w \in Workers :
         (pc'[w] = "killed" /\ pc[w] # "killed")
             => pc[w] \in {"start", "capture", "disconnect"}]_vars

C16_Shutdown ==
    /\ [][/\ (~InShutdown /\ InShutdown')
               => (pc'[Sup] = "sup_final_flush"
                     /\ \A w \in Workers : pc'[w] \in EndedPcs)
          /\ pc[Sup] = "sup_final_flush"
               => IF Len(buffer) > 0
                    THEN pc'[Sup] \in {"sup_final_flush", "push_check"}
                    ELSE pc'[Sup] \in {"sup_final_flush", "sup_stopped"}
          /\ (InShutdown /\ PostsInStep > 0)
               => (attempts[Sup] = 0 /\ pc'[Sup] # "push_post")
          /\ (InShutdown /\ ReturnsFalse(Sup)) => pc'[Sup] = "sup_stopped"
          /\ (InShutdown /\ pc'[Sup] = "push_check")
               => pc[Sup] \in {"sup_final_flush", "push_check"}
          /\ pc[Sup] = "sup_stopped" => pc'[Sup] = "sup_stopped"
         ]_vars
    /\ [](InShutdown => \A w \in Workers : pc[w] \in EndedPcs)

\* C17: the flush check of the loop calls push_to_server exactly when the
\* buffer holds BUFFER_LIMIT records or more, and the loop calls it nowhere
\* else.
C17_SupervisorFlush ==
    [][/\ (pc[Sup] = "sup_flush" /\ pc'[Sup] \in {"sup_top", "push_check"})
            => ((pc'[Sup] = "push_check") <=> (Len(buffer) >= BUFFER_LIMIT))
       /\ (pc'[Sup] = "push_check" /\ pc[Sup] # "push_check" /\ ~InShutdown')
            => (pc[Sup] = "sup_flush" /\ Len(buffer) >= BUFFER_LIMIT)
      ]_vars

\* the Supervisor flushes from its loop while no worker is alive
C17_Witness ==
    /\ pc[Sup] = "push_check"
    /\ ret[Sup] = "sup_top"
    /\ \A w \in Workers : pc[w] \in EndedPcs

----------------------------------------------------------------------------
(* Full resync, SpecResync *)

\* the devices attempted so far, in the order of the attempts
AttemptedDevices == [i \in 1 .. Len(attempted) |-> attempted[i][1]]
\* the k-th slice chunked(logs, chunk_size) yields
Chunk(k) == SubSeq(logs, (k - 1) * chunk_size + 1,
                   Min(k * chunk_size, Len(logs)))
\* the batch size the resync path is held to
ChunkLimit == IF path = "sync" THEN chunk_size ELSE BUFFER_LIMIT

\* C18: in both resync paths the devices attempted are, at every moment, the
\* first ones of the device list in its order; the run ends only when every
\* device was attempted, whatever failed before; and before its end the run
\* always has a next step.
C18_EveryDeviceAttempted ==
    /\ AttemptedDevices = SubSeq(devices, 1, dev_ix)
         \/ AttemptedDevices = SubSeq(devices, 1, dev_ix - 1)
    /\ r_pc = "done" => AttemptedDevices = devices
    /\ r_pc # "done" => ENABLED ResyncStep

\* the run has ended, the first of two devices had a failure and the second
\* was attempted
C18_Witness ==
    /\ r_pc = "done"
    /\ Len(attempted) = 2
    /\ attempted[1][2] # "ok"

\* C19: in sync_all.main the deliveries made for the current device are its
\* chunks in order from the first one, none after a failed one; a failed
\* delivery ends the device's chunk loop and goes on with the device loop.
C19_FailedChunkAbortsDevice ==
    /\ [](path = "sync" =>
            /\ \A k \in 1 .. Len(deliveries) :
                 /\ deliveries[k][1] = Chunk(k)
                 /\ k < Len(deliveries) => deliveries[k][2]
            /\ r_pc = "push" =>
                 /\ batch = Chunk(Len(deliveries) + 1)
                 /\ \A k \in 1 .. Len(deliveries) : deliveries[k][2])
    /\ [][(path = "sync" /\ r_pc = "push" /\ r_pc' # "push"
              /\ b_result = "False") => r_pc' = "loop"]_vars

\* a chunk of the first of two devices failed after at least one POST, with
\* chunks of that device still unsent
C19_Witness ==
    /\ path = "sync"
    /\ r_pc = "loop"
    /\ dev_ix = 1
    /\ Len(devices) = 2
    /\ deliveries # <<>>
    /\ ~deliveries[Len(deliveries)][2]
    /\ deliveries[Len(deliveries)][3] >= 1
    /\ offset < Len(logs)

\* C20: every batch delivered by a resync path holds at most chunk-size
\* records: --chunk for sync_all, the configured limit for the daily job.
C20_BatchesWithinChunk ==
    \A k \in 1 .. Len(deliveries) : Len(deliveries[k][1]) <= ChunkLimit

----------------------------------------------------------------------------
(* Claims about the order, the range and the accounting of a resync *)

\* the bodies POSTed for the current device, one after the other
RECURSIVE Bodies(_)
Bodies(ds) ==
    IF ds = <<>> THEN <<>>
    ELSE Bodies(SubSeq(ds, 1, Len(ds) - 1)) \o ds[Len(ds)][1]

\* ascending timestamps, equal timestamps in the device's order
StampOrdered(s) ==
    \A i, j \in 1 .. Len(s) :
        i < j => \/ s[i][3] < s[j][3]
                 \/ (s[i][3] = s[j][3] /\ s[i][2] < s[j][2])

\* C21: the records a resync delivers for one device are in ascending
\* timestamp order, records with equal timestamps in the device's order,
\* across the concatenation of the device's POSTed batches; on the daily
\* job and on the command-line resync alike.
C21_DeliveredInStampOrder ==
    StampOrdered(Bodies(deliveries))

\* both --from and --to were given
Ranged == path = "sync" /\ start_dt # NoDate /\ end_dt # NoDate
\* the records of the device's history inside the range
InsideRange == {r \in Range(raw_logs) : start_dt <= r[3] /\ r[3] <= end_dt}

\* C22: with --from and --to the command-line resync works, per device, on
\* exactly the records of the device's history whose timestamp lies inside
\* the range, in ascending timestamp order with ties in the device's order:
\* the sequence is determined by the history and the range alone, and every
\* record delivered is one of it.
C22_RangeFilter ==
    (Ranged /\ r_pc \in {"chunk", "push"}) =>
        /\ Range(logs) = InsideRange
        /\ Len(logs) = Cardinality(InsideRange)
        /\ StampOrdered(logs)
        /\ \A i \in 1 .. Len(deliveries) :
               Range(deliveries[i][1]) \subseteq InsideRange

\* one record outside the range was dropped from between two records with
\* the same timestamp, which were delivered in the device's order
C22_Witness ==
    /\ Ranged
    /\ r_pc = "chunk"
    /\ Len(raw_logs) = 3
    /\ raw_logs[2] \notin InsideRange
    /\ logs = <<raw_logs[1], raw_logs[3]>>
    /\ Len(deliveries) = 1
    /\ deliveries[1] = <<logs, TRUE, 1>>

\* C23: a flush requested while the buffer is empty makes no POST, leaves
\* the buffer empty and returns at once with success (the return of line
\* 189, not one of the failure returns), whichever process requested it.
C23_EmptyFlushIsNoOp ==
    [][\A p \in Procs :
          (pc[p] = "push_check" /\ pc'[p] # "push_check" /\ buffer = <<>>) =>
              /\ PostsInStep = 0
              /\ buffer' = <<>>
              /\ pc'[p] = ret[p]
              /\ ~ReturnsFalse(p)]_vars

\* the Supervisor and a worker both stand at the emptiness check of a flush
\* they requested, and another flush has emptied the buffer meanwhile
C23_Witness ==
    /\ buffer = <<>>
    /\ pc[Sup] = "push_check"
    /\ \E w \in Workers : pc[w] = "push_check"

\* C24: a delivery leaves the caller's batch as it was, on success and on
\* failure: no step of push_batch changes `batch`, push_to_server called by
\* the daily job leaves attendance_data with the same records, and the
\* count the job reports afterwards is the number of records in the body
\* it POSTed.
C24_BatchUntouched ==
    [][/\ (r_pc = "push" /\ r_pc' = "push") => batch' = batch
       /\ r_pc = "eod_push" => attendance_data' = attendance_data
       /\ (r_pc = "eod_report" /\ r_pc' = "loop") =>
              eod_records' = Len(deliveries[Len(deliveries)][1])]_vars

----------------------------------------------------------------------------
(* Claims about the Supervisor's error path, its schedule and its workers *)

\* the Supervisor is inside the `try` of main (lines 493-521)
InLoop == pc[Sup] \in SupLoopPcs \/ (InPush(Sup) /\ ret[Sup] = "sup_top")

\* C25: an exception raised inside the scheduling loop, by the reconnection
\* step or anywhere else, takes the Supervisor to the shutdown path and
\* nowhere else; on that path every worker is stopped, and main does not end
\* with records in the buffer unless a final flush was attempted.
C25_ExceptionLeadsToShutdown ==
    /\ [][/\ (InLoop /\ ~InLoop') => pc'[Sup] = "sup_final_flush"
          /\ (pc[Sup] = "sup_final_flush" /\ pc'[Sup] = "sup_stopped")
               => buffer = <<>>
         ]_vars
    /\ [](pc[Sup] \in FinalPcs => \A w \in Workers : pc[w] \in EndedPcs)

\* C26: a run of the daily job triggered in the 23:59 window of a day marks
\* that day as done, however long it took and however it ended; and a
\* scheduling check inside a window skips the job only when the day of that
\* window is the one marked.
C26_MarksTriggerDay ==
    [][/\ (pc[Sup] = "sup_eod_run" /\ pc'[Sup] = "sup_eod_sleep")
            => last_eod_run_date' = Date(sup_now)
       /\ (pc[Sup] = "sup_eod" /\ pc'[Sup] = "sup_flush" /\ InWindow(sup_now))
            => last_eod_run_date = Date(sup_now)
      ]_vars

\* C27: a worker's time trigger fires only when `periodic_flush_s` seconds
\* have passed, on the worker's own clock reading, since its most recent
\* flush of either kind: after a size-trigger flush it does not fire again
\* before that.
C27_TimeSinceAnyFlush ==
    [][\A w \in Workers :
          (pc[w] = "time_check" /\ pc'[w] = "push_check")
              => now[w] - flushed_at[w] >= periodic_flush_s]_vars

\* C28: when stop_processes returns, no process of the list it was given
\* is running; and once the Supervisor is on its shutdown path no worker
\* appends to the buffer.
C28_NoWorkerAfterStop ==
    [][/\ \/ (pc[Sup] = "sup_stop" /\ pc'[Sup] = "sup_spawn")
          \/ (InLoop /\ pc'[Sup] = "sup_final_flush")
            => \A i \in 1 .. Len(processes) :
                   pc[processes[i]] \notin EndedPcs
                       => pc'[processes[i]] \in EndedPcs
       /\ InShutdown => reported' = reported
      ]_vars

----------------------------------------------------------------------------
(* Claims about the day and the counts of the daily job *)

\* the date on which the run of the daily job was triggered
TriggerDate == Date(StartTime)

\* C29: the daily job selects and delivers, for every device of its pass,
\* only records dated the day on which the job was triggered, however late
\* in the pass the device is reached.
C29_TriggerDayRecords ==
    path = "eod" =>
        /\ \A k \in 1 .. Len(attendance_data) :
               Date(attendance_data[k][3]) = TriggerDate
        /\ \A i \in 1 .. Len(deliveries) :
               \A k \in 1 .. Len(deliveries[i][1]) :
                   Date(deliveries[i][1][k][3]) = TriggerDate

\* C30: when the daily job completes, the counts it reports add up to the
\* number of devices, and `fail` counts the devices whose connection, fetch
\* or delivery failed.
C30_CountsReflectOutcomes ==
    (path = "eod" /\ r_pc = "done") =>
        /\ eod_ok + eod_fail = Len(devices)
        /\ eod_fail = Cardinality({i \in 1 .. Len(attempted) :
                                     attempted[i][2] # "ok"})

----------------------------------------------------------------------------
(* Claims about eventual delivery, the time trigger after a failure, the   *)
(* reconnection pass, the date range and the chunks                        *)

\* the bounds of the model, not the program, keep record r where it is: no
\* POST is left, or the clock has stopped before any worker's next time
\* trigger while r waits in the buffer
Capped(r) ==
    \/ nPosts = MaxPosts
    \/ /\ r \in Pending
       /\ clock = MaxTime
       /\ \A w \in Workers : clock - last_flush[w] < periodic_flush_s

\* C31: with an endpoint that answers 200, connectable devices and fair
\* scheduling, every record appended to the buffer is eventually in the
\* body of a POST that returned 200.
C31_EventuallyDelivered ==
    \A r \in Records :
        (r \in Appended) ~> (delivered[r] >= 1 \/ Capped(r))

\* C32: when the push_to_server call of a worker's time trigger returns
\* False, the worker goes back to its loop without the assignment
\* `last_flush = now` (position set_last_flush), so that its time trigger is
\* still due at the next iteration.
C32_FailedTimeFlushKeepsTimer ==
    [][\A w \in Workers :
          (ReturnsFalse(w) /\ ret[w] = "set_last_flush")
              => pc'[w] = "capture"]_vars

\* C33: the reconnection pass leaves the buffer as it is: neither
\* stop_processes nor reconnect_devices changes it or makes a POST, and
\* nothing changes it between the two.
C33_ReconnectKeepsBuffer ==
    [][/\ (pc[Sup] = "sup_stop" /\ pc'[Sup] = "sup_spawn")
            => (buffer' = buffer /\ PostsInStep = 0)
       /\ pc[Sup] = "sup_spawn"
            => (buffer' = buffer /\ PostsInStep = 0)
      ]_vars

\* a reconnection has just been made, the fresh workers have not taken a
\* step yet, and the buffer holds a record from before the pass
C33_Witness ==
    /\ pc[Sup] = "sup_eod"
    /\ last_reconnect > StartTime
    /\ last_reconnect = clock
    /\ \A w \in Workers : pc[w] = "start"
    /\ buffer # <<>>

\* the records of the device's history dated from the --from day to the
\* --to day, both included; an omitted bound does not restrict
InsideDates ==
    {r \in Range(raw_logs) :
        /\ start_dt = NoDate \/ Date(start_dt) <= Date(r[3])
        /\ end_dt = NoDate \/ Date(r[3]) <= Date(end_dt)}

\* C34: the command-line resync keeps every record whose calendar date lies
\* between the --from date and the --to date inclusive, whatever its time of
\* day, and no other; an omitted bound does not restrict that side.
C34_InclusiveDates ==
    (path = "sync" /\ r_pc \in {"chunk", "push"}) =>
        Range(logs) = InsideDates

\* the chunks handed to push_batch for the current device so far
Pieces ==
    [i \in 1 .. Len(deliveries) |-> deliveries[i][1]]
        \o (IF r_pc = "push" THEN <<batch>> ELSE <<>>)

RECURSIVE Flat(_)
Flat(ss) ==
    IF ss = <<>> THEN <<>>
    ELSE Flat(SubSeq(ss, 1, Len(ss) - 1)) \o ss[Len(ss)]

\* C35: for every --chunk value the effective size is at least 1; the
\* chunks of a device, in order, make up the sorted list from its start
\* (all of it once the chunk loop has run through), each chunk is non-empty
\* and no longer than the size, every chunk before the last has exactly the
\* size; every chunk moves the loop forward, so it ends; and total_pushed
\* grows by the length of a chunk exactly when its delivery returned True.
C35_ChunksPartition ==
    /\ [][/\ (r_pc = "chunk" /\ r_pc' = "push")
               => (offset' > offset /\ batch' # <<>>)
          /\ (r_pc = "push" /\ r_pc' # "push")
               => total_pushed' = total_pushed
                      + (IF b_result = "True" THEN Len(batch) ELSE 0)
         ]_vars
    /\ [](path = "sync" =>
            /\ chunk_size >= 1
            /\ r_pc \in {"chunk", "push"} =>
                 /\ Flat(Pieces) = SubSeq(logs, 1, Min(offset, Len(logs)))
                 /\ \A i \in 1 .. Len(Pieces) :
                        /\ Len(Pieces[i]) \in 1 .. chunk_size
                        /\ i < Len(Pieces) => Len(Pieces[i]) = chunk_size)

\* three records went out in chunks of two and one, both delivered, and the
\* chunk loop has run through
C35_Witness ==
    /\ path = "sync"
    /\ r_pc = "chunk"
    /\ chunk_size = 2
    /\ Len(logs) = 3
    /\ offset >= Len(logs)
    /\ Len(deliveries) = 2
    /\ Len(deliveries[1][1]) = 2
    /\ Len(deliveries[2][1]) = 1
    /\ Flat(Pieces) = logs
    /\ total_pushed >= 3

============================================================================
